---- MODULE Spec2Model ----
(***************************************************************************)
(* A model of posts/llama-cpp-radiology-report-labeling.ipynb: the cells   *)
(* of the notebook are the operations, the kernel's global names are the   *)
(* state.  Texts that the code scans character by character (the model's   *)
(* response) are sequences of one-character strings; texts that the code   *)
(* only concatenates (the prompts) are strings.                            *)
(***************************************************************************)
EXTENDS Integers, Sequences, FiniteSets, TLC

(***************************************************************************)
(* Characters.                                                             *)
(***************************************************************************)
LB == "{"
RB == "}"
QT == "\""
BS == "\\"
COLON == ":"
COMMA == ","
SP == " "
NL == "\n"

\* The letters of the response alphabet: enough for the literals true and
\* false, for keys, and for prose.
Letter == {"a", "e", "f", "h", "i", "l", "m", "n", "o", "p", "r", "s", "t", "u",
           "x", "y", "_"}

Char == {LB, RB, QT, BS, COLON, COMMA, SP, NL} \cup Letter

(***************************************************************************)
(* Python values: a tag t and a payload v.                                 *)
(***************************************************************************)
None == [t |-> "None", v |-> <<>>]
PyBool(b) == [t |-> "bool", v |-> b]
PyStr(cs) == [t |-> "str", v |-> cs]
PyDict(f) == [t |-> "dict", v |-> f]
\* The outcome of a call that raised instead of returning.
Raised(exc) == [t |-> "raise", v |-> exc]

(***************************************************************************)
(* expr = re.compile(r'\{(?:[^{}]*|(?R))*\}'): a '{', then any run of      *)
(* characters that are no brace or of whole-pattern matches, then a '}'.   *)
(* MatchAt(s, i) is the index of the last character of the match that      *)
(* starts at i, 0 when the pattern does not match there.  The pattern      *)
(* tells braces from other characters and nothing else: a quote is an      *)
(* ordinary character to it.                                               *)
(***************************************************************************)
RECURSIVE MatchAt(_, _), MatchBody(_, _)
MatchBody(s, j) ==
    IF j > Len(s) THEN 0
    ELSE IF s[j] = RB THEN j
    ELSE IF s[j] = LB
         THEN LET e == MatchAt(s, j) IN IF e = 0 THEN 0 ELSE MatchBody(s, e + 1)
    ELSE MatchBody(s, j + 1)

MatchAt(s, i) ==
    IF i > Len(s) \/ s[i] # LB THEN 0 ELSE MatchBody(s, i + 1)

\* expr.findall(s): the matches, leftmost first, none overlapping another;
\* the scan resumes after a match, or one character on where none starts.
RECURSIVE FindAllFrom(_, _)
FindAllFrom(s, pos) ==
    IF pos > Len(s) THEN <<>>
    ELSE LET e == MatchAt(s, pos) IN
         IF e # 0 THEN <<SubSeq(s, pos, e)>> \o FindAllFrom(s, e + 1)
         ELSE FindAllFrom(s, pos + 1)

findall(s) == FindAllFrom(s, 1)

(***************************************************************************)
(* json.loads, on texts over Char.  A scan returns [ok, val, end]: whether *)
(* a value was read, the value, and the index after it.                    *)
(***************************************************************************)
Whitespace == {SP, NL, "\t", "\r"}
\* The hexadecimal digits and the control characters that texts over Char and
\* their decoded escapes can hold.
HexDigit == {"a", "e", "f"}
ControlChar == {NL, "\t", "\r", "\f"}

Fail(i) == [ok |-> FALSE, val |-> None, end |-> i]
Got(val, i) == [ok |-> TRUE, val |-> val, end |-> i]

RECURSIVE SkipWs(_, _)
SkipWs(s, i) ==
    IF i <= Len(s) /\ s[i] \in Whitespace THEN SkipWs(s, i + 1) ELSE i

\* The character a backslash escape stands for ("" when the escape is
\* invalid); \uXXXX is read by ScanString.
Unescape(c) ==
    CASE c = QT -> QT
      [] c = BS -> BS
      [] c = "/" -> "/"
      [] c = "f" -> "\f"
      [] c = "n" -> NL
      [] c = "r" -> "\r"
      [] c = "t" -> "\t"
      [] OTHER -> ""

\* scanstring(s, i): s[i] is the character after the opening quote; acc is
\* the text decoded so far.  A literal control character, an invalid escape
\* and a missing closing quote are errors.
RECURSIVE ScanString(_, _, _)
ScanString(s, i, acc) ==
    IF i > Len(s) THEN Fail(i)
    ELSE IF s[i] = QT THEN Got(PyStr(acc), i + 1)
    ELSE IF s[i] \in ControlChar THEN Fail(i)
    ELSE IF s[i] # BS THEN ScanString(s, i + 1, Append(acc, s[i]))
    ELSE IF i + 1 > Len(s) THEN Fail(i)
    ELSE IF s[i + 1] = "u"
         THEN IF i + 5 <= Len(s) /\ \A k \in 2..5 : s[i + k] \in HexDigit
              THEN ScanString(s, i + 6,
                     Append(acc, "\\u" \o s[i+2] \o s[i+3] \o s[i+4] \o s[i+5]))
              ELSE Fail(i)
    ELSE IF Unescape(s[i + 1]) = "" THEN Fail(i)
    ELSE ScanString(s, i + 2, Append(acc, Unescape(s[i + 1])))

IsLiteral(s, i, lit) ==
    /\ i + Len(lit) - 1 <= Len(s)
    /\ SubSeq(s, i, i + Len(lit) - 1) = lit

\* scan_once and JSONObject.  pairs is the dict read so far: a later pair
\* with the same key replaces the earlier one.
RECURSIVE ScanOnce(_, _), ScanPairs(_, _, _)
ScanOnce(s, i) ==
    IF i > Len(s) THEN Fail(i)
    ELSE IF s[i] = QT THEN ScanString(s, i + 1, <<>>)
    ELSE IF s[i] = LB
         THEN LET j == SkipWs(s, i + 1) IN
              IF j <= Len(s) /\ s[j] = RB THEN Got(PyDict(<<>>), j + 1)
              ELSE IF j <= Len(s) /\ s[j] = QT THEN ScanPairs(s, j + 1, <<>>)
              ELSE Fail(j)
    ELSE IF IsLiteral(s, i, <<"t", "r", "u", "e">>) THEN Got(PyBool(TRUE), i + 4)
    ELSE IF IsLiteral(s, i, <<"f", "a", "l", "s", "e">>) THEN Got(PyBool(FALSE), i + 5)
    ELSE Fail(i)

\* s[i] is the character after the opening quote of a key.
ScanPairs(s, i, pairs) ==
    LET key == ScanString(s, i, <<>>) IN
    IF ~key.ok THEN Fail(key.end)
    ELSE LET c == SkipWs(s, key.end) IN
    IF c > Len(s) \/ s[c] # COLON THEN Fail(c)
    ELSE LET val == ScanOnce(s, SkipWs(s, c + 1)) IN
    IF ~val.ok THEN Fail(val.end)
    ELSE LET now == (key.val.v :> val.val) @@ pairs
             n == SkipWs(s, val.end) IN
    IF n <= Len(s) /\ s[n] = RB THEN Got(PyDict(now), n + 1)
    ELSE IF n > Len(s) \/ s[n] # COMMA THEN Fail(n)
    ELSE LET k == SkipWs(s, n + 1) IN
    IF k <= Len(s) /\ s[k] = QT THEN ScanPairs(s, k + 1, now) ELSE Fail(k)

\* json.loads(s): one value, with nothing but whitespace around it, or
\* JSONDecodeError.
json_loads(s) ==
    LET r == ScanOnce(s, SkipWs(s, 1)) IN
    IF r.ok /\ SkipWs(s, r.end) = Len(s) + 1 THEN r.val
    ELSE Raised("JSONDecodeError")

(***************************************************************************)
(* The finding names of the schema, as the keys of a response spell them,  *)
(* and the key of the recorded response that is none of them.              *)
(***************************************************************************)
Cardiomegaly == <<"c", "a", "r", "d", "i", "o", "m", "e", "g", "a", "l", "y">>
LungOpacity == <<"l", "u", "n", "g", "_", "o", "p", "a", "c", "i", "t", "y">>
Pneumothorax == <<"p", "n", "e", "u", "m", "o", "t", "h", "o", "r", "a", "x">>
PleuralEffusion ==
    <<"p", "l", "e", "u", "r", "a", "l", "_", "e", "f", "f", "u", "s", "i",
      "o", "n">>
PulmonaryEdema ==
    <<"p", "u", "l", "m", "o", "n", "a", "r", "y", "_", "e", "d", "e", "m",
      "a">>
AbnormalStudy ==
    <<"a", "b", "n", "o", "r", "m", "a", "l", "_", "s", "t", "u", "d", "y">>
SchemaNames ==
    {Cardiomegaly, LungOpacity, Pneumothorax, PleuralEffusion, PulmonaryEdema,
     AbnormalStudy}
PulmonaryRama ==
    <<"p", "u", "l", "m", "o", "n", "a", "r", "y", "_", "r", "a", "m", "a">>

\* json_from_str keeping only the keys that the schema names.
json_from_str_schema_only(s) ==
    LET res == findall(s) IN
    IF res = <<>> THEN None
    ELSE LET r == json_loads(res[1]) IN
         IF r.t = "dict"
         THEN PyDict([k \in DOMAIN r.v \cap SchemaNames |-> r.v[k]])
         ELSE r

\* json_from_str without its guard: res[0] of an empty list raises.
json_from_str_unguarded(s) ==
    LET res == findall(s) IN
    IF res # <<>> THEN json_loads(res[1]) ELSE Raised("IndexError")

\* def json_from_str(s): the first match of expr, parsed; None without a match.
json_from_str(s) ==
    LET res == findall(s) IN
    IF res # <<>> THEN json_loads(res[1]) ELSE None

(***************************************************************************)
(* The prompt cells.  The literals are the notebook's defaults.            *)
(***************************************************************************)
DefaultSystem ==
    "You are an expert radiologist's assistant, skilled in analyzing radiology reports. Please first provide a response to any specific requests. Then explain your reasoning."

SchemaText ==
    "\n{\n    \"cardiomegaly\": { \"type\": \"boolean\" },\n    \"lung_opacity\": { \"type\": \"boolean\" },\n    \"pneumothorax\": { \"type\": \"boolean\" },\n    \"pleural_effusion\": { \"type\": \"boolean\" },\n    \"pulmonary_edema\": { \"type\": \"boolean\" },\n    \"abnormal_study\": { \"type\": \"boolean\" }\n}\n"

DefaultReport ==
    "No focal consolidation, pneumothorax, or pleural effusion. Cardiomediastinal silhouette is stable and unremarkable. No acute osseous abnormalities are identified. No acute cardiopulmonary abnormality."

DefaultInstructions ==
    "Note that 'lung_opacity' may include nodule, mass, atelectasis, or consolidation."

\* The run of three backquotes that opens and closes a fence.  A TLA+ string
\* cannot hold a backquote, so three apostrophes stand for the run.
FENCE == "'''"

\* The task prompt with the schema put before the report.
TaskPrompt_SchemaFirst(report, sch, instructions) ==
    "\n" \o FENCE \o sch \o FENCE \o "\n"
    \o "Please extract the findings from the preceding text radiology report using the following JSON schema:\n"
    \o FENCE \o report \o FENCE \o "\n"
    \o instructions \o "\n"

\* The f-string of the prompt cell: the report in a fence, the request, the
\* schema in a fence, the additional instructions.
TaskPrompt(report, sch, instructions) ==
    "\n" \o FENCE \o report \o FENCE \o "\n"
    \o "Please extract the findings from the preceding text radiology report using the following JSON schema:\n"
    \o FENCE \o sch \o FENCE \o "\n"
    \o instructions \o "\n"

\* The llama-2 template without the delimiters of the system instruction.
Llama2Template_NoSys(sys, p) ==
    "[INST] " \o sys \o "\n" \o p \o "[/INST]\n"

\* llama2_prompt_template and mistral_prompt_template.
Llama2Template(sys, p) ==
    "[INST] <<SYS>>\n" \o sys \o "\n<</SYS>>\n" \o p \o "[/INST]\n"

MistralTemplate(sys, p) ==
    "<s>[INST] " \o sys \o " " \o p \o " [/INST]"

\* if model == "llama-2": ... else: ...  in the selection cell.
ModelName(m) ==
    IF m = "llama-2" THEN "TheBloke/Llama-2-7b-Chat-GGUF"
    ELSE "TheBloke/Mistral-7B-Instruct-v0.1-GGUF"

ModelBasename(m) ==
    IF m = "llama-2" THEN "llama-2-7b-chat.Q4_K_M.gguf"
    ELSE "mistral-7b-instruct-v0.1.Q4_K_M.gguf"

\* if model == "llama-2": ... else: ...  in the generate cell.
SelectTemplate_Stale(m, llama2, mistral) == llama2

SelectTemplate(m, llama2, mistral) ==
    IF m = "llama-2" THEN llama2 ELSE mistral

(***************************************************************************)
(* The kernel.  bound is the set of global names that are bound; a name    *)
(* that is not bound holds the empty value of its kind, and reading it     *)
(* raises NameError.  last is the cell that ran last and err how it ended: *)
(* "ok", or the exception that stopped it.  calls is the number of times    *)
(* that cell called lcpp_llm.                                              *)
(***************************************************************************)
VARIABLES bound,
          model, model_name, model_basename, model_path, lcpp_llm,
          system, schema, report_text, additional_instructions, prompt,
          llama2_prompt_template, mistral_prompt_template,
          full_prompt, res_txt,
          id, labels, result_dict,
          last, err, calls

modelVars == <<model, model_name, model_basename>>
loadVars == <<model_path, lcpp_llm>>
inputVars == <<system, schema, report_text>>
promptVars == <<additional_instructions, prompt>>
templateVars == <<llama2_prompt_template, mistral_prompt_template>>
generateVars == <<full_prompt, res_txt>>
labelVars == <<id, labels, result_dict>>

vars == <<bound, modelVars, loadVars, inputVars, promptVars, templateVars,
          generateVars, labelVars, last, err, calls>>

Imports == {"hf_hub_download", "Llama", "re", "json"}

\* What the completion call can end in other than a returned text: the
\* exceptions of the completion boundary, and the user's interrupt.
CallFailures == {"GenerationFailure", "Timeout"}
CallExceptions == CallFailures \cup {"KeyboardInterrupt"}

\* The calls of lcpp_llm in one run of the generate cell, by how the run
\* ended: the cell holds one call, outside any loop and any try, and a
\* NameError stops the cell before the call is made.
GenerateCalls_Retry(outcome) ==
    IF outcome = "NameError" THEN 0
    ELSE IF outcome \in CallFailures THEN 2 ELSE 1

GenerateCalls(outcome) == IF outcome = "NameError" THEN 0 ELSE 1

\* How a cell ended.  Only the generate cell holds a call of lcpp_llm.
Ran(cell, outcome) ==
    /\ last' = cell
    /\ err' = outcome
    /\ calls' = IF cell = "generate" THEN GenerateCalls(outcome) ELSE 0

(***************************************************************************)
(* What the user can put in the cells' fields.                             *)
(***************************************************************************)
\* model = "llama-2": the two families of the form field, and a family the
\* notebook has no template for.
Models == {"llama-2", "mistral", "vicuna"}
Systems == {DefaultSystem, "Answer with JSON only."}
\* The schema of the notebook, and one edited down to a single finding.
Schemas ==
    {SchemaText, "\n{\n    \"pneumothorax\": { \"type\": \"boolean\" }\n}\n"}
Reports == {DefaultReport, "No pneumothorax or effusion. Normal study."}
Instructions == {DefaultInstructions, ""}
\* id = 1, and the ids of further reports.
MaxId == 2
ReportIds == 1..MaxId

(***************************************************************************)
(* The cells.                                                              *)
(***************************************************************************)
\* from huggingface_hub import hf_hub_download ... import json
ImportCell ==
    /\ bound' = bound \cup Imports
    /\ Ran("import", "ok")
    /\ UNCHANGED <<modelVars, loadVars, inputVars, promptVars, templateVars,
                   generateVars, labelVars>>

\* model = ...; model_name and model_basename by the if/else.
SelectModelCell ==
    \E m \in Models :
        /\ model' = m
        /\ model_name' = ModelName(m)
        /\ model_basename' = ModelBasename(m)
        /\ bound' = bound \cup {"model", "model_name", "model_basename"}
        /\ Ran("select", "ok")
        /\ UNCHANGED <<loadVars, inputVars, promptVars, templateVars,
                       generateVars, labelVars>>

\* model_path = hf_hub_download(repo_id=model_name, filename=model_basename)
DownloadCell ==
    /\ IF {"hf_hub_download", "model_name", "model_basename"} \subseteq bound
       THEN /\ model_path' = model_name \o "/" \o model_basename
            /\ bound' = bound \cup {"model_path"}
            /\ Ran("download", "ok")
       ELSE /\ UNCHANGED <<model_path, bound>>
            /\ Ran("download", "NameError")
    /\ UNCHANGED <<modelVars, lcpp_llm, inputVars, promptVars, templateVars,
                   generateVars, labelVars>>

\* lcpp_llm = Llama(model_path=model_path, ...): the loaded weights.
InitLlamaCell ==
    /\ IF {"Llama", "model_path"} \subseteq bound
       THEN /\ lcpp_llm' = model_path
            /\ bound' = bound \cup {"lcpp_llm"}
            /\ Ran("init", "ok")
       ELSE /\ UNCHANGED <<lcpp_llm, bound>>
            /\ Ran("init", "NameError")
    /\ UNCHANGED <<modelVars, model_path, inputVars, promptVars, templateVars,
                   generateVars, labelVars>>

\* system = ...
SystemCell ==
    \E s \in Systems :
        /\ system' = s
        /\ bound' = bound \cup {"system"}
        /\ Ran("system", "ok")
        /\ UNCHANGED <<modelVars, loadVars, schema, report_text, promptVars,
                       templateVars, generateVars, labelVars>>

\* schema = ...  with one of schemas as the cell's literal.
SchemaCell(schemas) ==
    \E sc \in schemas :
        /\ schema' = sc
        /\ bound' = bound \cup {"schema"}
        /\ Ran("schema", "ok")
        /\ UNCHANGED <<modelVars, loadVars, system, report_text, promptVars,
                       templateVars, generateVars, labelVars>>

\* The report cell of a notebook that re-evaluates what depends on a name:
\* prompt is rebuilt from the new report.
ReportCell_Rebuilds ==
    \E r \in Reports :
        /\ report_text' = r
        /\ prompt' = TaskPrompt(r, schema, additional_instructions)
        /\ bound' = bound \cup {"report_text"}
        /\ Ran("report", "ok")
        /\ UNCHANGED <<modelVars, loadVars, system, schema,
                       additional_instructions, templateVars, generateVars,
                       labelVars>>

\* report_text = ...
ReportCell ==
    \E r \in Reports :
        /\ report_text' = r
        /\ bound' = bound \cup {"report_text"}
        /\ Ran("report", "ok")
        /\ UNCHANGED <<modelVars, loadVars, system, schema, promptVars,
                       templateVars, generateVars, labelVars>>

\* additional_instructions = ...; prompt = f'''...'''
PromptCell ==
    \E a \in Instructions :
        /\ additional_instructions' = a
        /\ IF {"report_text", "schema"} \subseteq bound
           THEN /\ prompt' = TaskPrompt(report_text, schema, a)
                /\ bound' = bound \cup {"additional_instructions", "prompt"}
                /\ Ran("prompt", "ok")
           ELSE /\ UNCHANGED prompt
                /\ bound' = bound \cup {"additional_instructions"}
                /\ Ran("prompt", "NameError")
        /\ UNCHANGED <<modelVars, loadVars, inputVars, templateVars,
                       generateVars, labelVars>>

\* llama2_prompt_template = f'''...'''; mistral_prompt_template = f'''...'''
TemplateCell ==
    /\ IF {"system", "prompt"} \subseteq bound
       THEN /\ llama2_prompt_template' = Llama2Template(system, prompt)
            /\ mistral_prompt_template' = MistralTemplate(system, prompt)
            /\ bound' = bound \cup {"llama2_prompt_template",
                                    "mistral_prompt_template"}
            /\ Ran("template", "ok")
       ELSE /\ UNCHANGED <<templateVars, bound>>
            /\ Ran("template", "NameError")
    /\ UNCHANGED <<modelVars, loadVars, inputVars, promptVars, generateVars,
                   labelVars>>

\* The generate cell: full_prompt by the if/else, the hyperparameters, then
\* response = lcpp_llm(prompt=full_prompt, ...) and res_txt.  The call
\* returns a text of completions, raises, or is interrupted; whatever was
\* assigned before the cell stopped stays assigned.
GenerateCell(completions) ==
    /\ UNCHANGED <<modelVars, loadVars, inputVars, promptVars, templateVars,
                   labelVars>>
    /\ IF \/ "model" \notin bound
          \/ SelectTemplate(model, "llama2_prompt_template",
                            "mistral_prompt_template") \notin bound
       THEN /\ UNCHANGED <<generateVars, bound>>
            /\ Ran("generate", "NameError")
       ELSE /\ full_prompt' = SelectTemplate(model, llama2_prompt_template,
                                             mistral_prompt_template)
            /\ IF "lcpp_llm" \notin bound
               THEN /\ UNCHANGED res_txt
                    /\ bound' = bound \cup {"full_prompt", "max_tokens",
                                            "temperature", "top_p"}
                    /\ Ran("generate", "NameError")
               ELSE \/ \E t \in completions :
                         /\ res_txt' = t
                         /\ bound' = bound \cup {"full_prompt", "max_tokens",
                                                 "temperature", "top_p",
                                                 "response", "res_txt"}
                         /\ Ran("generate", "ok")
                    \/ /\ UNCHANGED res_txt
                       /\ bound' = bound \cup {"full_prompt", "max_tokens",
                                               "temperature", "top_p"}
                       /\ \E e \in CallExceptions : Ran("generate", e)

\* def json_from_str(s): ...
DefCell ==
    /\ bound' = bound \cup {"json_from_str"}
    /\ Ran("def", "ok")
    /\ UNCHANGED <<modelVars, loadVars, inputVars, promptVars, templateVars,
                   generateVars, labelVars>>

\* id = ...; labels = json_from_str(res_txt); result_dict = {id: labels}
LabelCell ==
    \E i \in ReportIds :
        /\ id' = i
        /\ UNCHANGED <<modelVars, loadVars, inputVars, promptVars, templateVars,
                       generateVars>>
        /\ IF \/ ~({"json_from_str", "res_txt", "re"} \subseteq bound)
              \/ findall(res_txt) # <<>> /\ "json" \notin bound
           THEN /\ UNCHANGED <<labels, result_dict>>
                /\ bound' = bound \cup {"id"}
                /\ Ran("label", "NameError")
           ELSE LET r == json_from_str(res_txt) IN
                IF r.t = "raise"
                THEN /\ UNCHANGED <<labels, result_dict>>
                     /\ bound' = bound \cup {"id"}
                     /\ Ran("label", r.v)
                ELSE /\ labels' = r
                     /\ result_dict' = (i :> r)
                     /\ bound' = bound \cup {"id", "labels", "result_dict"}
                     /\ Ran("label", "ok")

(***************************************************************************)
(* The texts a completion can return.  An object is written down as the    *)
(* sequence of its <<key, value>> pairs, a value being a PyBool, a PyStr   *)
(* or Obj(pairs); Dumps is its JSON text and Value the Python value that   *)
(* text denotes.                                                           *)
(***************************************************************************)
Obj(pairs) == [t |-> "obj", v |-> pairs]

RECURSIVE EscapeStr(_)
EscapeStr(cs) ==
    IF cs = <<>> THEN <<>>
    ELSE (IF Head(cs) \in {QT, BS} THEN <<BS, Head(cs)>> ELSE <<Head(cs)>>)
         \o EscapeStr(Tail(cs))

DumpsStr(cs) == <<QT>> \o EscapeStr(cs) \o <<QT>>

RECURSIVE Dumps(_), DumpsPairs(_)
Dumps(val) ==
    CASE val.t = "bool" ->
           IF val.v THEN <<"t", "r", "u", "e">> ELSE <<"f", "a", "l", "s", "e">>
      [] val.t = "str" -> DumpsStr(val.v)
      [] val.t = "obj" -> <<LB>> \o DumpsPairs(val.v) \o <<RB>>

DumpsPairs(pairs) ==
    IF pairs = <<>> THEN <<>>
    ELSE DumpsStr(pairs[1][1]) \o <<COLON, SP>> \o Dumps(pairs[1][2])
         \o (IF Len(pairs) = 1 THEN <<>> ELSE <<COMMA, SP>> \o DumpsPairs(Tail(pairs)))

RECURSIVE Value(_)
Value(val) ==
    IF val.t # "obj" THEN val
    ELSE PyDict([k \in {val.v[n][1] : n \in 1..Len(val.v)} |->
                   LET n == CHOOSE n \in 1..Len(val.v) :
                              /\ val.v[n][1] = k
                              /\ \A m \in (n + 1)..Len(val.v) : val.v[m][1] # k
                   IN Value(val.v[n][2])])

Keys == {<<"a">>, <<"e">>}
Bools == {PyBool(TRUE), PyBool(FALSE)}
\* String values: plain, with a balanced pair of braces, with a lone brace,
\* and with a brace after an escaped quote.
BraceStrs == {<<LB, "x", RB>>, <<LB>>, <<RB>>, <<QT, RB>>, <<QT, LB>>}
Strs == {PyStr(<<"x">>)} \cup {PyStr(cs) : cs \in BraceStrs}
Leaves == Bools \cup Strs

\* Objects of at most one pair, of two pairs, and of nested objects.
UnitObjs == {Obj(<<>>)} \cup {Obj(<< <<k, v>> >>) : k \in Keys, v \in Leaves}
PairObjs == {Obj(<< <<(<<"a">>), v>>, <<(<<"e">>), w>> >>) : v \in Leaves, w \in Leaves}
NestObjs ==
    {Obj(<< <<k, o>> >>) : k \in Keys, o \in UnitObjs}
    \cup {Obj(<< <<(<<"a">>), v>>, <<(<<"e">>), o>> >>) : v \in Bools, o \in UnitObjs}
Objs == UnitObjs \cup PairObjs \cup NestObjs
\* Objects of finding names mapped to booleans.
BoolObjs ==
    {Obj(<< <<k, v>> >>) : k \in Keys, v \in Bools}
    \cup {Obj(<< <<(<<"a">>), v>>, <<(<<"e">>), w>> >>) : v \in Bools, w \in Bools}

HasBrace(cs) == \E n \in 1..Len(cs) : cs[n] \in {LB, RB}
HasOpen(cs) == \E n \in 1..Len(cs) : cs[n] = LB

\* Prose: without braces, and with a balanced pair of them.
Sure == <<"s", "u", "r", "e", SP>>
SeeNote == <<"s", "e", "e", SP, LB, "x", RB, SP>>
ProseBefore == {<<>>, Sure, SeeNote}
ProseAfter == {<<>>, <<SP, "x">>}
ProseTexts == {b \o a : b \in ProseBefore, a \in ProseAfter}

\* Balanced spans that are no JSON: a trailing comma, an unquoted key.
TrailingComma == <<LB, QT, "a", QT, COLON, SP, "t", "r", "u", "e", COMMA, RB>>
UnquotedKey == <<LB, "a", COLON, SP, "t", "r", "u", "e", RB>>
BadSpans == {TrailingComma, UnquotedKey}

\* Every text of at most MaxRawLen characters over RawChars.
MaxRawLen == 4
RawChars == {LB, RB, QT, "a"}
RawTexts == UNION {[1..n -> RawChars] : n \in 0..MaxRawLen}

\* An object inside prose; a bad span and then an object; objects one after
\* another.
EmbeddedCases ==
    {[text |-> b \o Dumps(o) \o a, obj |-> o, before |-> b, after |-> a] :
        b \in ProseBefore, o \in Objs, a \in ProseAfter}
BadFirstCases ==
    {[text |-> bad \o <<SP>> \o Dumps(o), obj |-> o, bad |-> bad] :
        bad \in BadSpans, o \in BoolObjs}
SequenceCases ==
    {[text |-> Dumps(o) \o <<SP>> \o Dumps(p), obj |-> o, next |-> p] :
        o \in UnitObjs, p \in UnitObjs}
    \cup {[text |-> Dumps(o) \o <<SP>> \o Dumps(p) \o <<SP>> \o Dumps(o),
           obj |-> o, next |-> p] : o \in BoolObjs, p \in BoolObjs}

\* The recorded response: an object of finding names mapped to booleans,
\* with any of two schema names and of the mis-spelled key left out, inside
\* prose without braces.
FindingKeys == <<Pneumothorax, PleuralEffusion, PulmonaryRama>>
FindingPair(c, n) ==
    IF c[n] = "absent" THEN <<>>
    ELSE << <<FindingKeys[n], PyBool(c[n] = "true")>> >>
FindingObjs ==
    {Obj(FindingPair(c, 1) \o FindingPair(c, 2) \o FindingPair(c, 3)) :
        c \in [1..3 -> {"absent", "true", "false"}]}
FindingCases ==
    {[text |-> b \o Dumps(o) \o a, obj |-> o, before |-> b, after |-> a] :
        b \in {<<>>, Sure}, o \in FindingObjs, a \in ProseAfter}

Texts ==
    RawTexts
    \cup ProseTexts
    \cup {c.text : c \in EmbeddedCases}
    \cup {c.text : c \in FindingCases}
    \cup {c.text : c \in BadFirstCases}
    \cup {c.text : c \in SequenceCases}

\* The completions of the prompt pipeline: prose alone, and prose with an object.
StubTexts == {Sure, Sure \o Dumps(Obj(<< <<(<<"a">>), PyBool(FALSE)>> >>))}

(***************************************************************************)
(* The notebook: a fresh kernel, and any cell run at any time.             *)
(***************************************************************************)
Init ==
    /\ bound = {}
    /\ model = "" /\ model_name = "" /\ model_basename = ""
    /\ model_path = "" /\ lcpp_llm = ""
    /\ system = "" /\ schema = "" /\ report_text = ""
    /\ additional_instructions = "" /\ prompt = ""
    /\ llama2_prompt_template = "" /\ mistral_prompt_template = ""
    /\ full_prompt = "" /\ res_txt = <<>>
    /\ id = 0 /\ labels = None /\ result_dict = <<>>
    /\ last = "start" /\ err = "ok" /\ calls = 0

Next ==
    \/ ImportCell
    \/ SelectModelCell
    \/ DownloadCell
    \/ InitLlamaCell
    \/ SystemCell
    \/ SchemaCell(Schemas)
    \/ ReportCell
    \/ PromptCell
    \/ TemplateCell
    \/ GenerateCell(Texts)
    \/ DefCell
    \/ LabelCell

Spec == Init /\ [][Next]_vars

(***************************************************************************)
(* The prompt pipeline: the kernel after the cells down to the llama.cpp   *)
(* constructor ran in order, then the selection and prompt cells and the   *)
(* generate cell, run at any time.                                         *)
(***************************************************************************)
InitPrompt ==
    /\ bound = Imports \cup {"model", "model_name", "model_basename",
                             "model_path", "lcpp_llm"}
    /\ model = "llama-2"
    /\ model_name = ModelName("llama-2")
    /\ model_basename = ModelBasename("llama-2")
    /\ model_path = ModelName("llama-2") \o "/" \o ModelBasename("llama-2")
    /\ lcpp_llm = model_path
    /\ system = "" /\ schema = "" /\ report_text = ""
    /\ additional_instructions = "" /\ prompt = ""
    /\ llama2_prompt_template = "" /\ mistral_prompt_template = ""
    /\ full_prompt = "" /\ res_txt = <<>>
    /\ id = 0 /\ labels = None /\ result_dict = <<>>
    /\ last = "init" /\ err = "ok" /\ calls = 0

NextPrompt ==
    \/ SelectModelCell
    \/ SystemCell
    \/ SchemaCell({SchemaText})
    \/ ReportCell
    \/ PromptCell
    \/ TemplateCell
    \/ GenerateCell(StubTexts)

SpecPrompt == InitPrompt /\ [][NextPrompt]_vars

(***************************************************************************)
(* The extraction: the kernel after the cells down to the generate cell    *)
(* ran in order with the defaults and the completion returned one of       *)
(* Texts, then the cell that defines json_from_str and the labeling cell.  *)
(***************************************************************************)
InitExtract ==
    /\ bound = Imports \cup {"model", "model_name", "model_basename",
                             "model_path", "lcpp_llm", "system", "schema",
                             "report_text", "additional_instructions", "prompt",
                             "llama2_prompt_template", "mistral_prompt_template",
                             "full_prompt", "max_tokens", "temperature", "top_p",
                             "response", "res_txt"}
    /\ model = "llama-2"
    /\ model_name = ModelName("llama-2")
    /\ model_basename = ModelBasename("llama-2")
    /\ model_path = ModelName("llama-2") \o "/" \o ModelBasename("llama-2")
    /\ lcpp_llm = model_path
    /\ system = DefaultSystem /\ schema = SchemaText /\ report_text = DefaultReport
    /\ additional_instructions = DefaultInstructions
    /\ prompt = TaskPrompt(DefaultReport, SchemaText, DefaultInstructions)
    /\ llama2_prompt_template = Llama2Template(system, prompt)
    /\ mistral_prompt_template = MistralTemplate(system, prompt)
    /\ full_prompt = llama2_prompt_template
    /\ res_txt \in Texts
    /\ id = 0 /\ labels = None /\ result_dict = <<>>
    /\ last = "generate" /\ err = "ok" /\ calls = 1

NextExtract ==
    \/ DefCell
    \/ LabelCell

SpecExtract == InitExtract /\ [][NextExtract]_vars

(***************************************************************************)
(* The labeling of reports: the kernel after the cells down to the         *)
(* template cell ran in order with the defaults, then the generate cell,   *)
(* the cell that defines json_from_str and the labeling cell, run at any   *)
(* time and with any id.                                                   *)
(***************************************************************************)
\* The completions of the labeling: those of the prompt pipeline, an object
\* of another finding, and a span that is no JSON.
LabelTexts ==
    StubTexts \cup {Dumps(Obj(<< <<(<<"e">>), PyBool(TRUE)>> >>)), TrailingComma}

InitLabel ==
    /\ bound = Imports \cup {"model", "model_name", "model_basename",
                             "model_path", "lcpp_llm", "system", "schema",
                             "report_text", "additional_instructions", "prompt",
                             "llama2_prompt_template", "mistral_prompt_template"}
    /\ model = "llama-2"
    /\ model_name = ModelName("llama-2")
    /\ model_basename = ModelBasename("llama-2")
    /\ model_path = ModelName("llama-2") \o "/" \o ModelBasename("llama-2")
    /\ lcpp_llm = model_path
    /\ system = DefaultSystem /\ schema = SchemaText /\ report_text = DefaultReport
    /\ additional_instructions = DefaultInstructions
    /\ prompt = TaskPrompt(DefaultReport, SchemaText, DefaultInstructions)
    /\ llama2_prompt_template = Llama2Template(system, prompt)
    /\ mistral_prompt_template = MistralTemplate(system, prompt)
    /\ full_prompt = "" /\ res_txt = <<>>
    /\ id = 0 /\ labels = None /\ result_dict = <<>>
    /\ last = "template" /\ err = "ok" /\ calls = 0

NextLabel ==
    \/ GenerateCell(LabelTexts)
    \/ DefCell
    \/ LabelCell

SpecLabel == InitLabel /\ [][NextLabel]_vars

(***************************************************************************)
(* The inputs of the prompt: the kernel after the cells down to the        *)
(* template cell ran in order with the defaults, then the cells of the     *)
(* system message, the schema and the report, the prompt cell, the         *)
(* template cell and the generate cell, run at any time.                   *)
(***************************************************************************)
NextSnapshot ==
    \/ SystemCell
    \/ SchemaCell(Schemas)
    \/ ReportCell
    \/ PromptCell
    \/ TemplateCell
    \/ GenerateCell({Sure})

SpecSnapshot == InitLabel /\ [][NextSnapshot]_vars

(***************************************************************************)
(* "Run after": the selection cell can be run at any time, and every cell  *)
(* below it runs only right after the cell above it ended normally, as     *)
(* the notebook orders them; an exception stops the run.  The kernel       *)
(* starts after the cells down to the llama.cpp constructor ran in order.  *)
(***************************************************************************)
After(cell) == last = cell /\ err = "ok"

NextRunAfter ==
    \/ SelectModelCell
    \/ After("select") /\ DownloadCell
    \/ After("download") /\ InitLlamaCell
    \/ After("init") /\ SystemCell
    \/ After("system") /\ SchemaCell({SchemaText})
    \/ After("schema") /\ ReportCell
    \/ After("report") /\ PromptCell
    \/ After("prompt") /\ TemplateCell
    \/ After("template") /\ GenerateCell(StubTexts)
    \/ After("generate") /\ DefCell
    \/ After("def") /\ LabelCell

SpecRunAfter == InitPrompt /\ [][NextRunAfter]_vars

(***************************************************************************)
(* Properties of the extraction, under SpecExtract.                        *)
(***************************************************************************)
\* The labeling cell ran last and called json_from_str(res_txt).
Labeled == last = "label" /\ "json_from_str" \in bound

\* The call returned val, and the cell stored it under the report's id.
Returned(val) ==
    /\ err = "ok"
    /\ labels = val
    /\ result_dict = (id :> val)

\* Flat objects with a brace inside a string value.
BraceStrObjs ==
    {o \in UnitObjs \cup PairObjs :
        \E n \in 1..Len(o.v) : o.v[n][2].t = "str" /\ HasBrace(o.v[n][2].v)}

AllCandidatesFail(s) ==
    /\ findall(s) # <<>>
    /\ \A n \in 1..Len(findall(s)) : json_loads(findall(s)[n]).t = "raise"

\* C1: for every valid JSON object O inside surrounding prose that holds no
\* unbalanced brace, json_from_str(prose + text of O + prose) returns O.
C1_RoundTrip ==
    Labeled =>
        \A c \in EmbeddedCases : res_txt = c.text => Returned(Value(c.obj))

\* C2: when the leftmost balanced span is no valid JSON (a trailing comma,
\* an unquoted key) and a later span is a valid object, json_from_str drops
\* the failed candidate, scans on and returns the later object.
C2_SkipsFailedCandidate ==
    Labeled =>
        \A c \in BadFirstCases :
            (res_txt = c.text /\ findall(res_txt)[1] = c.bad)
                => Returned(Value(c.obj))

\* C3: for every input json_from_str returns a parsed object or None and
\* never raises; when every balanced candidate fails to parse, or a span
\* holds an unbalanced quote, the result is None.
C3_NeverRaises ==
    Labeled =>
        /\ err = "ok"
        /\ labels.t \in {"dict", "None"}
        /\ AllCandidatesFail(res_txt) => labels = None

\* C4: braces inside the string values of a valid JSON object, balanced or
\* lone, also after an escaped quote, do not change the nesting depth: the
\* whole object is returned with the string values verbatim.
C4_BracesInsideStrings ==
    Labeled =>
        \A o \in BraceStrObjs : res_txt = Dumps(o) => Returned(Value(o))

\* C5: of two or more well-formed JSON objects one after another,
\* json_from_str returns the first one.
C5_FirstOfSeveral ==
    Labeled =>
        \A c \in SequenceCases : res_txt = c.text => Returned(Value(c.obj))

\* C6: for every text without a '{', the empty text and pure prose included,
\* json_from_str returns None without raising, and the result maps the
\* report's id to None.
C6_NoOpenBraceGivesNone ==
    (Labeled /\ ~HasOpen(res_txt)) =>
        /\ err = "ok"
        /\ labels = None
        /\ id \in ReportIds
        /\ result_dict = (id :> None)

\* A pure-prose completion was labeled for the second report.
C6_Witness ==
    /\ Labeled
    /\ res_txt = Sure
    /\ id = 2
    /\ result_dict = (2 :> None)

\* C10: when the completion is prose followed by a valid JSON object of
\* finding names mapped to booleans, the result maps the report's id to
\* exactly that object.
C10_EndToEnd ==
    Labeled =>
        \A c \in EmbeddedCases :
            (c.obj \in BoolObjs /\ c.after = <<>> /\ res_txt = c.text)
                => /\ Returned(Value(c.obj))
                   /\ id \in ReportIds

(***************************************************************************)
(* Properties of the prompt pipeline, under SpecPrompt.                    *)
(***************************************************************************)
\* The families the notebook has a template for.
KnownFamilies == {"llama-2", "mistral"}

\* C7: choosing the template for a family without a template entry always
\* fails with UnsupportedModelFamily; no other family's template is used.
C7_UnknownFamilyFails ==
    (/\ last = "generate"
     /\ model \notin KnownFamilies
     /\ {"llama2_prompt_template", "mistral_prompt_template"} \subseteq bound)
        => err = "UnsupportedModelFamily"

\* C8: the templates follow the families' delimiter conventions exactly,
\* llama-2 with the system instruction inside <<SYS>> delimiters, mistral
\* with it merged into the user turn; and the prompt passed to the
\* completion call is the template of the selected family.
C8_TemplatesFollowConvention ==
    /\ (last = "template" /\ err = "ok") =>
          /\ llama2_prompt_template =
                "[INST] <<SYS>>\n" \o system \o "\n<</SYS>>\n" \o prompt \o "[/INST]\n"
          /\ mistral_prompt_template =
                "<s>[INST] " \o system \o " " \o prompt \o " [/INST]"
    /\ (last = "generate" /\ err # "NameError" /\ model = "llama-2") =>
          /\ full_prompt = llama2_prompt_template
          /\ \E s \in Systems, r \in Reports, a \in Instructions :
                full_prompt = "[INST] <<SYS>>\n" \o s \o "\n<</SYS>>\n"
                              \o TaskPrompt(r, SchemaText, a) \o "[/INST]\n"
    /\ (last = "generate" /\ err # "NameError" /\ model = "mistral") =>
          /\ full_prompt = mistral_prompt_template
          /\ \E s \in Systems, r \in Reports, a \in Instructions :
                full_prompt = "<s>[INST] " \o s \o " "
                              \o TaskPrompt(r, SchemaText, a) \o " [/INST]"

\* The mistral template went to the completion call, and a text came back.
C8_Witness ==
    /\ last = "generate" /\ err = "ok"
    /\ model = "mistral"
    /\ system = DefaultSystem
    /\ full_prompt = "<s>[INST] " \o DefaultSystem \o " " \o prompt \o " [/INST]"

\* The first three parts of the task prompt: the report in a fence, the
\* request, the schema in a fence.
ExpectedHead(report, sch) ==
    "\n" \o FENCE \o report \o FENCE \o "\n"
    \o "Please extract the findings from the preceding text radiology report using the following JSON schema:\n"
    \o FENCE \o sch \o FENCE \o "\n"

\* C9: the task prompt is the report in a fence, the request, the schema in
\* a fence and then the additional instructions, in this order, and depends
\* on these three inputs alone; with empty instructions the first three
\* parts are the same, in the same order.
C9_TaskPromptFixedOrder ==
    (last = "prompt" /\ err = "ok") =>
        prompt = ExpectedHead(report_text, schema)
                 \o additional_instructions \o "\n"

\* The prompt cell ran with the instructions deleted and another report.
C9_Witness ==
    /\ last = "prompt" /\ err = "ok"
    /\ additional_instructions = ""
    /\ report_text # DefaultReport
    /\ "system" \in bound

(***************************************************************************)
(* Properties of the labeling of reports, under SpecLabel.                 *)
(***************************************************************************)
\* An entry of the result store that marks a failure: neither a label
\* record nor the None of a text without an object.
IsFailureMarker(val) == val.t \notin {"dict", "None"}

\* C11: when the completion call fails (GenerationFailure or Timeout), the
\* failure is recorded: the labeling step that follows the failed call
\* leaves the result store holding the report's id mapped to an explicit
\* failure marker, never no entry and never a label record.
C11_FailureRecorded ==
    [][(last = "generate" /\ err \in CallFailures /\ last' = "label") =>
          /\ id' \in DOMAIN result_dict'
          /\ IsFailureMarker(result_dict'[id'])]_vars

\* C12: the result store never evicts: a step that records a result for one
\* id leaves the entry of every other id in place and unchanged, so that a
\* result recorded for A is still there after one is recorded for B.
C12_NoEviction ==
    [][\A a \in DOMAIN result_dict :
          /\ a \in DOMAIN result_dict'
          /\ a # id' => result_dict'[a] = result_dict[a]]_vars

\* C13: abandoning a pending completion call leaves the result store
\* unchanged, and the cancelled report never gets a labeled result: the
\* interrupted generate step does not change the result store, and the
\* labeling step that follows it records no label record, the only
\* completion text at hand being that of an earlier call.
C13_CancelledNeverLabeled ==
    [][/\ (last' = "generate" /\ err' = "KeyboardInterrupt") =>
             UNCHANGED <<labels, result_dict>>
       /\ (last = "generate" /\ err = "KeyboardInterrupt" /\ last' = "label") =>
             ~(err' = "ok" /\ result_dict'[id'].t = "dict")]_vars

(***************************************************************************)
(* Properties of a re-run in order, under SpecRunAfter.                    *)
(***************************************************************************)
LlamaWeights == "TheBloke/Llama-2-7b-Chat-GGUF/llama-2-7b-chat.Q4_K_M.gguf"
MistralWeights ==
    "TheBloke/Mistral-7B-Instruct-v0.1-GGUF/mistral-7b-instruct-v0.1.Q4_K_M.gguf"

\* The generate cell ran last and sent full_prompt to lcpp_llm.
Sent == last = "generate" /\ calls = 1

\* C14: after the selection cell and every cell below it are re-run in
\* order, the pipeline is consistent with the new selection: the weights
\* downloaded and loaded and the chat template of the prompt that is sent
\* are those of the selected model, Llama-2 weights with the Llama-2
\* template and Mistral weights with the Mistral template, filled with
\* the current system message and task prompt.
C14_RerunConsistent ==
    Sent =>
        LET p == TaskPrompt(report_text, schema, additional_instructions) IN
        /\ lcpp_llm = model_path
        /\ model_path \in {LlamaWeights, MistralWeights}
        /\ model = "llama-2" => model_path = LlamaWeights
        /\ model = "mistral" => model_path = MistralWeights
        /\ model_path = LlamaWeights => full_prompt = Llama2Template(system, p)
        /\ model_path = MistralWeights => full_prompt = MistralTemplate(system, p)

\* The selection was changed to Mistral, the cells were re-run and the
\* prompt was sent to the Mistral weights.
C14_Witness ==
    /\ Sent /\ err = "ok"
    /\ model = "mistral"
    /\ lcpp_llm = MistralWeights
    /\ full_prompt = MistralTemplate(system, prompt)

(***************************************************************************)
(* Further properties of the labeling of reports, under SpecLabel.         *)
(***************************************************************************)
\* C15: the core never retries: a run of the generate cell that reaches the
\* completion call makes exactly one call, whether the call returns, fails
\* or is interrupted, and no other cell makes one: in particular not the
\* labeling cell, whatever the extraction finds.
C15_NeverRetries ==
    /\ (last = "generate" /\ err # "NameError") => calls = 1
    /\ (last = "generate" /\ err = "NameError") => calls = 0
    /\ last # "generate" => calls = 0

\* The completion call failed and was made once.
C15_Witness ==
    /\ last = "generate"
    /\ err \in CallFailures
    /\ calls = 1

(***************************************************************************)
(* Further properties of the extraction, under SpecExtract.                *)
(***************************************************************************)
\* The keys an object is written with.
KeysOf(o) == {o.v[n][1] : n \in 1..Len(o.v)}

\* The label record holds the keys of the object o, each with its value,
\* and no other key.
SameKeys(o) ==
    /\ labels.t = "dict"
    /\ DOMAIN labels.v = KeysOf(o)
    /\ \A k \in KeysOf(o) : labels.v[k] = Value(o).v[k]

\* C16: the extraction is permissive with respect to the schema: the label
\* record holds every key of the object the model produced with its value,
\* a key the schema does not name included, and no other key: a schema
\* name the object leaves out is absent.  For an object of finding names
\* inside prose without braces the record is always produced; for the
\* other objects inside prose, whenever one is produced.
C16_KeysPassThrough ==
    Labeled =>
        /\ \A c \in FindingCases :
              res_txt = c.text =>
                  /\ err = "ok"
                  /\ SameKeys(c.obj)
                  /\ \A k \in SchemaNames :
                        k \in DOMAIN labels.v <=> k \in KeysOf(c.obj)
                  /\ PulmonaryRama \in DOMAIN labels.v <=>
                        PulmonaryRama \in KeysOf(c.obj)
        /\ \A c \in EmbeddedCases :
              (res_txt = c.text /\ err = "ok") => SameKeys(c.obj)

\* The response held the mis-spelled key and left a schema name out, and the
\* label record has the one and not the other.
C16_Witness ==
    /\ Labeled /\ err = "ok"
    /\ \E c \in FindingCases : res_txt = c.text
    /\ labels.t = "dict"
    /\ PulmonaryRama \in DOMAIN labels.v
    /\ Pneumothorax \in DOMAIN labels.v
    /\ PleuralEffusion \notin DOMAIN labels.v

(***************************************************************************)
(* Properties of the inputs of the prompt, under SpecSnapshot.             *)
(***************************************************************************)
\* The task prompt that the current inputs spell.
FreshPrompt == TaskPrompt(report_text, schema, additional_instructions)

\* C17 as stated: a step that changes system, report_text, schema or
\* additional_instructions leaves prompt and both chat templates unchanged.
C17_InputsLeavePromptStale ==
    [][(\/ system' # system
        \/ report_text' # report_text
        \/ schema' # schema
        \/ additional_instructions' # additional_instructions) =>
          UNCHANGED <<prompt, llama2_prompt_template,
                      mistral_prompt_template>>]_vars

\* C17, amended: the task prompt and both chat templates are snapshots
\* taken when their cells run.  The cells of system, schema and report_text
\* and the generate cell leave prompt and both templates unchanged;
\* additional_instructions changes only in the prompt cell, which rebuilds
\* prompt in the same run and leaves both templates unchanged; the generate
\* cell sends the template as it stands; and the template cell run right
\* after the prompt cell spells the current inputs.
C17_Snapshots ==
    [][/\ last' \in {"system", "schema", "report", "generate"} =>
             UNCHANGED <<additional_instructions, prompt,
                         llama2_prompt_template, mistral_prompt_template>>
       /\ last' = "prompt" =>
             /\ UNCHANGED <<llama2_prompt_template, mistral_prompt_template>>
             /\ err' = "ok" => prompt' = FreshPrompt'
       /\ last' = "template" => UNCHANGED <<additional_instructions, prompt>>
       /\ (last' = "generate" /\ calls' = 1) =>
             full_prompt' = IF model = "llama-2" THEN llama2_prompt_template
                            ELSE mistral_prompt_template
       /\ (After("prompt") /\ last' = "template") =>
             /\ llama2_prompt_template' = Llama2Template(system, FreshPrompt)
             /\ mistral_prompt_template' = MistralTemplate(system, FreshPrompt)]_vars

\* The system message and the schema were changed after the templates were
\* built, and the prompt that was sent carries the old ones.
C17_Witness ==
    /\ Sent /\ err = "ok"
    /\ full_prompt = llama2_prompt_template
    /\ prompt # FreshPrompt
    /\ \E s \in Systems, sc \in Schemas :
          /\ s # system
          /\ sc # schema
          /\ full_prompt =
                Llama2Template(s, TaskPrompt(report_text, sc,
                                             additional_instructions))

====
